---- MODULE Spec2Model ----
(***************************************************************************)
(* Model of the basketball registration scraper:                           *)
(*   app/lib/basketball-scraper.ts   BasketballRegistrationScraper         *)
(*                                   (saveData, sendEmail, scrape, start)  *)
(*   app/api/basketball-registrations/route.ts   GET (snapshot read)       *)
(*   app/api/basketball-refresh/route.ts         GET (manual trigger)      *)
(*                                                                         *)
(* Every `await` of scrape() is one position of a run (pc); an action is   *)
(* the resumption of the run at that position and runs the synchronous     *)
(* code up to the next await.  A fixed settle delay (setTimeout 3000) that *)
(* follows a step cannot fail and touches no state: it is part of the      *)
(* step's action.  The external services (headless browser, blob store,    *)
(* mail channel) answer each awaited call with success or failure,         *)
(* nondeterministically.  put() of the blob store replaces the content     *)
(* stored under a pathname as a whole on success and changes nothing on    *)
(* failure.  A promise that settles resumes its awaiting caller in the     *)
(* same step (a microtask: nothing runs in between).                       *)
(*                                                                         *)
(* The console output of one invocation (the run `watch`) is recorded as   *)
(* its log, with the arguments of its sendEmail calls and the messages the *)
(* mail channel accepted from it.                                          *)
(*   Spec        every interleaving of the runs, the interval and the      *)
(*               manual trigger; no run is watched.                        *)
(*   SpecRead    Spec with the requests to the snapshot read surface.      *)
(*   SpecSerial  the behaviours in which no run starts while another is    *)
(*               active (the interval is long against a run, section 5 of  *)
(*               the specification), up to the end of the watched run.     *)
(*   SpecExtract the extraction taken alone: a run that has found the      *)
(*               results table, over tables of rows of several shapes.     *)
(*   SpecMail    sendEmail taken alone, over its arguments.                *)
(*   SpecLive    Spec with weak fairness of the steps of each run.         *)
(*   SpecVariants  a run of the blob-based scraper and a run of the        *)
(*               file-based one (basketball-registrations/route.ts) under  *)
(*               the same outcomes of the awaited operations.              *)
(*   SpecDashboard the Dashboard component (basketball-refresh/route.ts)   *)
(*               and its fetchData calls.                                  *)
(***************************************************************************)
EXTENDS Integers, Sequences, FiniteSets, TLC

\* ---------------------------------------------------------------- bounds
\* number of scrape() invocations of a behaviour
MaxRuns == 2
\* number of fetchData calls of the dashboard in a behaviour
MaxFetches == 3

\* ------------------------------------------------------------- constants
BLOB_FILENAME == "basketball-registrations.json"
SHOT_FILENAME == "error-screenshot.png"
SCRAPE_INTERVAL_HOURS == 6

Runs == 1..MaxRuns

\* number of data rows of a results table given to the extraction alone
MaxRows == 2

\* ------------------------------------------------------------ extraction
\* A text is a sequence of characters; " " is the whitespace character.
IsSpace(c) == c = " "

RECURSIVE TrimStart(_)
TrimStart(t) ==
    IF t = <<>> THEN <<>>
    ELSE IF IsSpace(Head(t)) THEN TrimStart(Tail(t)) ELSE t

RECURSIVE TrimEnd(_)
TrimEnd(t) ==
    IF t = <<>> THEN <<>>
    ELSE IF IsSpace(t[Len(t)]) THEN TrimEnd(SubSeq(t, 1, Len(t) - 1)) ELSE t

\* String.prototype.trim
Trim(t) == TrimEnd(TrimStart(t))

\* (faulty variant) the text of a cell is taken without trim()
CellUntrimmed(cols, k) == IF k + 1 <= Len(cols) THEN cols[k + 1] ELSE <<>>

\* (faulty variant) the k-th field is read from the k-th cell of the row
CellCountedFromOne(cols, k) == IF k <= Len(cols) THEN Trim(cols[k]) ELSE <<>>

\* cols[k]?.textContent?.trim() || ''   with k the zero-based index of the td
Cell(cols, k) == IF k + 1 <= Len(cols) THEN Trim(cols[k + 1]) ELSE <<>>

\* the object built from one row: the cells at the indexes 1..5
RowToRegistration(cols) ==
    [polideportivo |-> Cell(cols, 1),
     categoria     |-> Cell(cols, 2),
     actividad     |-> Cell(cols, 3),
     subcategoria  |-> Cell(cols, 4),
     horario       |-> Cell(cols, 5)]

\* a sequence without the later occurrences of its elements
RECURSIVE Distinct(_)
Distinct(s) ==
    IF s = <<>> THEN <<>>
    ELSE LET rest == Distinct(SubSeq(s, 1, Len(s) - 1))
         IN  IF \E i \in DOMAIN rest : rest[i] = s[Len(s)]
             THEN rest ELSE Append(rest, s[Len(s)])

\* (faulty variant) the extraction drops a registration it has already seen
ExtractRowsDistinct(table) ==
    IF table = <<>> THEN <<>>
    ELSE Distinct([i \in 1..(Len(table) - 1) |-> RowToRegistration(table[i + 1])])

\* querySelectorAll('#MainContent_gvBuscarActXCat tr:not(:first-child)'),
\* mapped: a table is the sequence of its tr elements, each the sequence of
\* the texts of its td elements
ExtractRows(table) ==
    IF table = <<>> THEN <<>>
    ELSE [i \in 1..(Len(table) - 1) |-> RowToRegistration(table[i + 1])]

\* A results table: a header row and n data rows of six cells (a selection
\* cell, then the five fields).
HeaderRow == <<>>
RowTag == <<"a", "b", "c", "d", "e", "f">>
DataRow(i) ==
    << <<"#">>, <<" ", "P", RowTag[i]>>, <<"C">>, <<"A">>, <<"S", RowTag[i]>>, <<"H", " ">> >>
TableOf(n) == <<HeaderRow>> \o [i \in 1..n |-> DataRow(i)]
\* The results tables a run finds: sendEmail and the rest of the pipeline
\* tell an empty result from a non-empty one, and nothing more.
Tables == {TableOf(0), TableOf(1)}

\* Rows for the extraction taken alone: rows of five cells, rows of six
\* cells with surrounding whitespace, a row of blank cells, a row of two
\* cells and a row without cells.
FiveCellRows ==
    { << <<"A">>, <<"B">>, <<"C">>, <<"D">>, <<"E">> >>,
      << <<"F">>, <<"G">>, <<"H">>, <<"I">>, <<"J">> >> }
BlankRow == << <<"#">>, <<" ">>, <<>>, <<" ", " ">>, <<"S">>, <<"H">> >>
ShortRow == << <<"#">>, <<"P">> >>
SampleRows == FiveCellRows \cup {DataRow(1), DataRow(2), BlankRow, ShortRow, <<>>}
\* every table of a header row and up to MaxRows of these rows, in any
\* order and with repetitions
SampleTables ==
    {<<HeaderRow>> \o rows : rows \in UNION {[1..n -> SampleRows] : n \in 0..MaxRows}}

\* --------------------------------------------------------------- storage
NoBlob == [kind |-> "none"]
Png == [kind |-> "png"]
NoUrl == "undefined"
NoData == [kind |-> "nodata"]

\* RegistrationData of saveData
RegistrationData(ts, registrations) ==
    [kind |-> "json", timestamp |-> ts, registrations |-> registrations]

\* put(pathname, body, ...) of @vercel/blob: the store after the call
Put(store, pathname, body, ok) ==
    IF ok THEN [store EXCEPT ![pathname] = body] ELSE store

\* the url put() returns for a pathname
UrlOf(pathname) == pathname

\* ------------------------------------------------------------------ mail
\* (faulty variant) the footer with the link is appended to both bodies
MessageLinksAlways(registrations, blobUrl) ==
    [subject |-> IF Len(registrations) > 0 THEN "Nuevas Inscripciones Disponibles!"
                 ELSE "Sin inscripciones disponibles",
     html    |-> [body  |-> IF Len(registrations) > 0 THEN "Inscripciones Disponibles"
                            ELSE "No hay inscripciones disponibles",
                  count |-> Len(registrations),
                  rows  |-> registrations,
                  link  |-> IF blobUrl # NoUrl THEN blobUrl ELSE NoUrl]]

\* the message sendEmail builds (subject and html content)
Message(registrations, blobUrl) ==
    IF Len(registrations) > 0
    THEN [subject |-> "Nuevas Inscripciones Disponibles!",
          html    |-> [body  |-> "Inscripciones Disponibles",
                       count |-> Len(registrations),
                       rows  |-> registrations,
                       link  |-> IF blobUrl # NoUrl THEN blobUrl ELSE NoUrl]]
    ELSE [subject |-> "Sin inscripciones disponibles",
          html    |-> [body  |-> "No hay inscripciones disponibles",
                       count |-> 0,
                       rows  |-> <<>>,
                       link  |-> NoUrl]]

\* ------------------------------------------------------------- dashboard
\* data and error of the component before the first answer
Null == [kind |-> "null"]

\* setError('Failed to load registration data. Please try again.')
FailedToLoad == "Failed to load registration data. Please try again."

FetchIds == 1..MaxFetches

\* the snapshots the read surface can answer with
Snapshots == {RegistrationData(ts, <<>>) : ts \in 1..MaxRuns}

NoFetch == [pc |-> "idle", body |-> Null, result |-> "none"]

\* useState(null), useState(true), useState(null), useState(false); the
\* effect of the first render has not run
DashInit ==
    [mounted    |-> FALSE,
     data       |-> Null,
     loading    |-> TRUE,
     error      |-> Null,
     refreshing |-> FALSE,
     fetches    |-> [c \in FetchIds |-> NoFetch]]

\* ----------------------------------------------------------------- state
VARIABLES
    run,      \* run[r]: the invocation r of scrape(): its position and locals
    blobs,    \* the blob store: pathname -> content
    clock,    \* the wall clock new Date() reads
    env,      \* process.env: whether RECIPIENT_EMAIL and FROM_EMAIL are set
    sched,    \* start(): "idle", "awaiting" (the initial run), "armed", "failed"
    reader,   \* the snapshot read handler: its position and its response
    watch,    \* the run whose console output is recorded (0: none)
    dash      \* the Dashboard component: its state and its fetchData calls

vars == <<run, blobs, clock, env, sched, reader, watch, dash>>

NoResponse == [status |-> 0, body |-> NoBlob]
ErrorPage == [kind |-> "errorpage"]
NoMsg == [subject |-> "", html |-> [body |-> "", count |-> 0, rows |-> <<>>, link |-> NoUrl]]

IdleRun ==
    [pc            |-> "idle",
     origin        |-> "none",
     browser       |-> "none",    \* "none", "open", "closed"
     page          |-> FALSE,     \* whether `page` is defined
     table         |-> <<>>,      \* the rows of the results table in the page
     registrations |-> <<>>,      \* const registrations, in the try block
     data          |-> NoData,    \* const data, in saveData
     msg           |-> NoMsg,     \* const msg, in sendEmail
     error         |-> "none",    \* the error scrape() will reject with
     outcome       |-> "none",    \* "pending", "resolved", "rejected"
     rejection     |-> "none",    \* where the rejection went: "caught",
                                  \* "raised" (into start()), "unhandled"
     ack           |-> "none",    \* the response of the trigger request
     watched       |-> FALSE,
     log           |-> <<>>,      \* the console output, as <<step, result>>
     calls         |-> <<>>,      \* the arguments of the sendEmail calls
     sent          |-> <<>>]      \* the messages sgMail.send accepted

InitState ==
    /\ run = [r \in Runs |-> IdleRun]
    /\ blobs = [n \in {BLOB_FILENAME, SHOT_FILENAME} |-> NoBlob]
    /\ clock = 0
    /\ env \in [recipient : BOOLEAN, from : BOOLEAN]
    /\ sched = "idle"
    /\ reader = [pc |-> "idle", response |-> NoResponse]
    /\ dash = DashInit

Init == InitState /\ watch = 0

InitSerial == InitState /\ watch \in Runs

\* ---------------------------------------------------------------- scrape
\* console.log / console.error of a step and its result
Logged(rec, step, result) ==
    IF rec.watched THEN [rec EXCEPT !.log = Append(@, <<step, result>>)] ELSE rec

\* (faulty variant) the manual trigger calls scrape() without a .catch
RejectionNeverCaught(origin, error) ==
    IF error = "none" THEN "none"
    ELSE IF origin = "start" THEN "raised" ELSE "unhandled"

\* who receives the rejection of the promise of scrape(): the .catch of the
\* manual trigger, the await in start(), nobody for the interval callback
Rejection(origin, error) ==
    IF error = "none" THEN "none"
    ELSE CASE origin = "manual" -> "caught"
           [] origin = "start"  -> "raised"
           [] OTHER             -> "unhandled"

\* scrape() returns its promise settled: resolved, or rejected with the
\* error thrown outside the try block or by the catch or finally block
Settled(rec, error) ==
    [rec EXCEPT !.pc = "done", !.error = error,
                !.outcome = IF error = "none" THEN "resolved" ELSE "rejected",
                !.rejection = Rejection(rec.origin, error)]

\* (faulty variant) the browser is closed after the try/catch statement instead of
\* in a finally block: an error thrown by the catch block skips the close
FinallySkippedOnThrow(rec) ==
    IF rec.error # "none" THEN Settled(rec, rec.error)
    ELSE [rec EXCEPT !.pc = "close", !.msg = NoMsg]

\* finally { await browser.close() ... }: close() is called
Finally(rec) == [rec EXCEPT !.pc = "close", !.msg = NoMsg]

\* (faulty variant) sendEmail without the configuration check: the send is attempted
\* although an address is missing
SendEmailUnchecked(rec, registrations, blobUrl, sendPc) ==
    LET called == IF rec.watched
                  THEN [rec EXCEPT !.calls = Append(@, [registrations |-> registrations,
                                                         blobUrl |-> blobUrl])]
                  ELSE rec
    IN  [Logged(called, "sgMail.send", "call") EXCEPT
            !.pc = sendPc, !.msg = Message(registrations, blobUrl)]

\* sendEmail(registrations, blobUrl) up to its await: the configuration check,
\* the message, the call of sgMail.send.  A return before the send leads to
\* the finally block of scrape(), from both of its call sites.
SendEmail(rec, registrations, blobUrl, sendPc) ==
    LET called == IF rec.watched
                  THEN [rec EXCEPT !.calls = Append(@, [registrations |-> registrations,
                                                         blobUrl |-> blobUrl])]
                  ELSE rec
    IN  IF ~env.recipient \/ ~env.from
        THEN Finally(Logged(called, "sendEmail", "skip"))
        ELSE [Logged(called, "sgMail.send", "call") EXCEPT
                 !.pc = sendPc, !.msg = Message(registrations, blobUrl)]

\* sgMail.send(msg) resolved: the channel accepted the message
Delivered(rec) ==
    IF rec.watched
    THEN [Logged(rec, "sgMail.send", "ok") EXCEPT !.sent = Append(@, rec.msg)]
    ELSE rec

\* (faulty variant) the catch block notifies at once, without the screenshot
CatchNotifiesFirst(rec) ==
    LET left == [rec EXCEPT !.table = <<>>, !.registrations = <<>>,
                            !.data = NoData, !.msg = NoMsg]
    IN  IF left.page THEN SendEmail(left, <<>>, NoUrl, "sendFailure") ELSE Finally(left)

\* (faulty variant) the catch block does not look at `page`
CatchWithoutPageCheck(rec) ==
    [rec EXCEPT !.table = <<>>, !.registrations = <<>>, !.data = NoData,
                !.msg = NoMsg, !.pc = "screenshot"]

\* catch (error) { ... } of scrape() up to its first await: the locals of the
\* try block are gone; with a page the screenshot is taken, without one the
\* catch block is left for the finally block
Catch(rec) ==
    LET left == [rec EXCEPT !.table = <<>>, !.registrations = <<>>,
                            !.data = NoData, !.msg = NoMsg]
    IN  IF left.page THEN [left EXCEPT !.pc = "screenshot"] ELSE Finally(left)

\* (faulty variant) the catch block ends after the screenshot without notifying
AfterCaptureSilent(rec) == Finally(rec)

\* after the inner try/catch around the screenshot: await this.sendEmail([])
AfterCapture(rec) == SendEmail(rec, <<>>, NoUrl, "sendFailure")

\* start() after `await this.scrape()`: setInterval when the initial run
\* resolved; when it rejected, start() rejects before the setInterval
Resumed(origin, error) ==
    IF origin = "start" THEN (IF error = "none" THEN "armed" ELSE "failed") ELSE sched

\* the response of the request that called scrape(): the manual trigger
\* answers with its acknowledgement right after the call
Ack(origin) == IF origin = "manual" THEN "success" ELSE "none"

\* scrape() is called: up to the await of puppeteer.launch
NewRun(r, origin) ==
    run' = [run EXCEPT ![r] = [IdleRun EXCEPT !.pc = "launch", !.origin = origin,
                                               !.outcome = "pending",
                                               !.ack = Ack(origin),
                                               !.watched = (r = watch)]]

\* the slot of the next invocation
FreeSlot(r) == run[r].pc = "idle" /\ \A q \in Runs : q < r => run[q].pc # "idle"

\* const browser = await puppeteer.launch(...): outside the try block
Launch(r) ==
    /\ run[r].pc = "launch"
    /\ \E ok \in BOOLEAN :
         IF ok
         THEN /\ run' = [run EXCEPT ![r] = [Logged(@, "launch", "ok") EXCEPT
                                               !.pc = "newPage", !.browser = "open"]]
              /\ UNCHANGED sched
         ELSE /\ run' = [run EXCEPT ![r] = Settled(Logged(@, "launch", "fail"),
                                                   "LaunchError")]
              /\ sched' = Resumed(run[r].origin, "LaunchError")
    /\ UNCHANGED <<blobs, clock, env, reader, watch, dash>>

\* page = await browser.newPage()
NewPage(r) ==
    /\ run[r].pc = "newPage"
    /\ \E ok \in BOOLEAN :
         run' = [run EXCEPT ![r] =
            IF ok
            THEN [Logged(@, "newPage", "ok") EXCEPT !.pc = "goto", !.page = TRUE]
            ELSE Catch(Logged(@, "newPage", "fail"))]
    /\ UNCHANGED <<blobs, clock, env, sched, reader, watch, dash>>

\* (faulty variant) a timeout of the wait for the results table is swallowed: the run
\* goes on to the extraction as if the table were there
PageStepLenientWait(rec, step, next, ok) ==
    IF ok \/ step = "waitResults"
    THEN [Logged(rec, step, IF ok THEN "ok" ELSE "fail") EXCEPT !.pc = next]
    ELSE Catch(Logged(rec, step, "fail"))

\* (faulty variant) the error of a page operation is logged and the run
\* goes on with the next step
PageStepGoesOn(rec, step, next, ok) ==
    [Logged(rec, step, IF ok THEN "ok" ELSE "fail") EXCEPT !.pc = next]

\* (faulty variant) a rejected page operation makes the run load the page
\* again and start over from the first selection
PageStepReloads(rec, step, next, ok) ==
    IF ok
    THEN [Logged(rec, step, "ok") EXCEPT !.pc = next]
    ELSE [Logged(rec, step, "fail") EXCEPT !.pc = "goto"]

\* an awaited page operation of the try block, resolved or rejected
PageStep(rec, step, next, ok) ==
    IF ok
    THEN [Logged(rec, step, "ok") EXCEPT !.pc = next]
    ELSE Catch(Logged(rec, step, "fail"))

\* Step 1: await page.goto(URL, { waitUntil: 'networkidle2', timeout: 60000 })
Goto(r) ==
    /\ run[r].pc = "goto"
    /\ \E ok \in BOOLEAN :
         run' = [run EXCEPT ![r] = PageStep(@, "goto", "selectMode", ok)]
    /\ UNCHANGED <<blobs, clock, env, sched, reader, watch, dash>>

\* Step 2: await page.evaluate(() => { if (radioButton) radioButton.click() }),
\* then the settle delay: a missing radio button is skipped, not an error
SelectMode(r) ==
    /\ run[r].pc = "selectMode"
    /\ \E result \in {"ok", "absent", "fail"} :
         run' = [run EXCEPT ![r] =
            IF result = "fail"
            THEN Catch(Logged(@, "selectMode", "fail"))
            ELSE [Logged(@, "selectMode", result) EXCEPT !.pc = "selectCategory"]]
    /\ UNCHANGED <<blobs, clock, env, sched, reader, watch, dash>>

\* Step 3: await page.select('#MainContent_ddlCategoria', '1'), settle delay
SelectCategory(r) ==
    /\ run[r].pc = "selectCategory"
    /\ \E ok \in BOOLEAN :
         run' = [run EXCEPT ![r] = PageStep(@, "selectCategory", "selectActivity", ok)]
    /\ UNCHANGED <<blobs, clock, env, sched, reader, watch, dash>>

\* Step 4: await page.select('#MainContent_ddlActividad', '16'), settle delay
SelectActivity(r) ==
    /\ run[r].pc = "selectActivity"
    /\ \E ok \in BOOLEAN :
         run' = [run EXCEPT ![r] = PageStep(@, "selectActivity", "search", ok)]
    /\ UNCHANGED <<blobs, clock, env, sched, reader, watch, dash>>

\* Step 5: await Promise.all([page.click(...), page.waitForNavigation(...)])
Search(r) ==
    /\ run[r].pc = "search"
    /\ \E ok \in BOOLEAN :
         run' = [run EXCEPT ![r] = PageStep(@, "search", "waitResults", ok)]
    /\ UNCHANGED <<blobs, clock, env, sched, reader, watch, dash>>

\* Step 6: await page.waitForSelector('#MainContent_gvBuscarActXCat',
\* { timeout: 10000 }): rejects with a TimeoutError when the table does not
\* appear in time
WaitResults(r) ==
    /\ run[r].pc = "waitResults"
    /\ \E ok \in BOOLEAN, table \in Tables :
         LET stepped == PageStep(run[r], "waitResults", "extract", ok)
         IN  run' = [run EXCEPT ![r] =
                        IF ok THEN [stepped EXCEPT !.table = table] ELSE stepped]
    /\ UNCHANGED <<blobs, clock, env, sched, reader, watch, dash>>

\* saveData(registrations) up to its await: the RegistrationData with the
\* timestamp read now, and the call of put
SaveData(rec, now) ==
    [Logged(rec, "saveData", "call") EXCEPT
        !.pc = "put", !.data = RegistrationData(now, rec.registrations)]

\* const registrations = await page.evaluate(...), then Step 7 up to the
\* await inside saveData
Extract(r) ==
    /\ run[r].pc = "extract"
    /\ \/ /\ clock' = clock + 1
          /\ run' = [run EXCEPT ![r] =
               SaveData([Logged(@, "extract", "ok") EXCEPT
                            !.registrations = ExtractRows(run[r].table)], clock')]
       \/ /\ run' = [run EXCEPT ![r] = Catch(Logged(@, "extract", "fail"))]
          /\ UNCHANGED clock
    /\ UNCHANGED <<blobs, env, sched, reader, watch, dash>>

\* (faulty variant) saveData swallows the error of put: scrape() goes on to
\* sendEmail(registrations, blobUrl) with an undefined url
SavedSwallowsError(rec, ok) ==
    SendEmail([Logged(rec, "put", IF ok THEN "ok" ELSE "fail") EXCEPT !.data = NoData],
              rec.registrations, IF ok THEN UrlOf(BLOB_FILENAME) ELSE NoUrl, "send")

\* saveData after `await put(BLOB_FILENAME, ...)`: on success it returns the
\* url and scrape() calls sendEmail(registrations, blobUrl); on failure it
\* rethrows into the catch block of scrape()
Saved(rec, ok) ==
    IF ok
    THEN SendEmail([Logged(rec, "put", "ok") EXCEPT !.data = NoData],
                   rec.registrations, UrlOf(BLOB_FILENAME), "send")
    ELSE Catch(Logged(rec, "put", "fail"))

\* (faulty variant) the snapshot is removed before it is written again, so that a
\* failed write leaves no snapshot behind
PutSnapshotRemovesFirst(r) ==
    /\ run[r].pc = "put"
    /\ \E ok \in BOOLEAN :
         /\ blobs' = Put([blobs EXCEPT ![BLOB_FILENAME] = NoBlob],
                         BLOB_FILENAME, run[r].data, ok)
         /\ run' = [run EXCEPT ![r] = Saved(@, ok)]
    /\ UNCHANGED <<clock, env, sched, reader, watch, dash>>

\* const { url } = await put(BLOB_FILENAME, JSON.stringify(data), ...)
PutSnapshot(r) ==
    /\ run[r].pc = "put"
    /\ \E ok \in BOOLEAN :
         /\ blobs' = Put(blobs, BLOB_FILENAME, run[r].data, ok)
         /\ run' = [run EXCEPT ![r] = Saved(@, ok)]
    /\ UNCHANGED <<clock, env, sched, reader, watch, dash>>

\* sendEmail(registrations, blobUrl) after `await sgMail.send(msg)`: on
\* failure it rethrows into the catch block of scrape()
Sent(rec, ok) ==
    IF ok THEN Finally(Delivered(rec)) ELSE Catch(Logged(rec, "sgMail.send", "fail"))

\* await sgMail.send(msg), called from the try block
Send(r) ==
    /\ run[r].pc = "send"
    /\ \E ok \in BOOLEAN : run' = [run EXCEPT ![r] = Sent(@, ok)]
    /\ UNCHANGED <<blobs, clock, env, sched, reader, watch, dash>>

\* (faulty variant) the screenshot is taken outside an inner try/catch: its failure
\* leaves the catch block, no notification is sent and scrape() rejects
CapturedUnguarded(rec, ok) ==
    IF ok
    THEN [Logged(rec, "screenshot", "ok") EXCEPT !.pc = "putScreenshot"]
    ELSE Finally([Logged(rec, "screenshot", "fail") EXCEPT !.error = "CaptureError"])

\* after `await page.screenshot()`: put('error-screenshot.png', ...) is
\* called; a failure is caught by the inner try/catch
Captured(rec, ok) ==
    IF ok
    THEN [Logged(rec, "screenshot", "ok") EXCEPT !.pc = "putScreenshot"]
    ELSE AfterCapture(Logged(rec, "screenshot", "fail"))

\* const screenshot = await page.screenshot()
Screenshot(r) ==
    /\ run[r].pc = "screenshot"
    /\ \E ok \in BOOLEAN : run' = [run EXCEPT ![r] = Captured(@, ok)]
    /\ UNCHANGED <<blobs, clock, env, sched, reader, watch, dash>>

\* (faulty variant) the screenshot is stored under the name of the snapshot
ShotNameOfSnapshot == BLOB_FILENAME

\* the pathname the screenshot is stored under
ShotName == SHOT_FILENAME

\* after `await put('error-screenshot.png', ...)`: a failure is caught by
\* the inner try/catch
ShotStored(rec, ok) ==
    AfterCapture(Logged(rec, "putScreenshot", IF ok THEN "ok" ELSE "fail"))

\* const { url } = await put('error-screenshot.png', Buffer.from(screenshot), ...)
PutScreenshot(r) ==
    /\ run[r].pc = "putScreenshot"
    /\ \E ok \in BOOLEAN :
         /\ blobs' = Put(blobs, ShotName, Png, ok)
         /\ run' = [run EXCEPT ![r] = ShotStored(@, ok)]
    /\ UNCHANGED <<clock, env, sched, reader, watch, dash>>

\* sendEmail([]) after `await sgMail.send(msg)`: on failure it rethrows out
\* of the catch block; the finally block runs and the error leaves scrape()
SentFailure(rec, ok) ==
    IF ok
    THEN Finally(Delivered(rec))
    ELSE Finally([Logged(rec, "sgMail.send", "fail") EXCEPT !.error = "DeliveryError"])

\* await sgMail.send(msg), called from the catch block
SendFailure(r) ==
    /\ run[r].pc = "sendFailure"
    /\ \E ok \in BOOLEAN : run' = [run EXCEPT ![r] = SentFailure(@, ok)]
    /\ UNCHANGED <<blobs, clock, env, sched, reader, watch, dash>>

\* after `await browser.close()` in the finally block: scrape() ends; it
\* rejects with the error thrown by the catch block or by close()
Closed(rec, ok) ==
    IF ok
    THEN Settled([Logged(rec, "close", "ok") EXCEPT !.browser = "closed"], rec.error)
    ELSE Settled(Logged(rec, "close", "fail"), "CloseError")

\* (faulty variant) the runs share one browser kept outside scrape(): the
\* close of a run closes it under the other runs
CloseSharedBrowser(r) ==
    /\ run[r].pc = "close"
    /\ \E ok \in BOOLEAN :
         /\ run' = [q \in Runs |->
                      IF q = r THEN Closed(run[q], ok)
                      ELSE IF ok /\ run[q].browser = "open"
                           THEN [run[q] EXCEPT !.browser = "closed"]
                           ELSE run[q]]
         /\ sched' = Resumed(run[r].origin, Closed(run[r], ok).error)
    /\ UNCHANGED <<blobs, clock, env, reader, watch, dash>>

\* await browser.close()
Close(r) ==
    /\ run[r].pc = "close"
    /\ \E ok \in BOOLEAN :
         /\ run' = [run EXCEPT ![r] = Closed(@, ok)]
         /\ sched' = Resumed(run[r].origin, Closed(run[r], ok).error)
    /\ UNCHANGED <<blobs, clock, env, reader, watch, dash>>

\* ----------------------------------------------------------------- start
\* (faulty variant) start() arms the interval before awaiting the initial run
StartArmsTimerFirst ==
    /\ sched = "idle"
    /\ \E r \in Runs : FreeSlot(r) /\ NewRun(r, "start")
    /\ sched' = "armed"
    /\ UNCHANGED <<blobs, clock, env, reader, watch, dash>>

\* start() is called: await this.scrape()
Start ==
    /\ sched = "idle"
    /\ \E r \in Runs : FreeSlot(r) /\ NewRun(r, "start")
    /\ sched' = "awaiting"
    /\ UNCHANGED <<blobs, clock, env, reader, watch, dash>>

\* the interval fires: () => this.scrape(), whatever the earlier runs do
Tick ==
    /\ sched = "armed"
    /\ \E r \in Runs : FreeSlot(r) /\ NewRun(r, "tick")
    /\ UNCHANGED <<blobs, clock, env, sched, reader, watch, dash>>

\* GET of basketball-refresh: scraper.scrape().catch(...), not awaited
ManualTrigger ==
    /\ \E r \in Runs : FreeSlot(r) /\ NewRun(r, "manual")
    /\ UNCHANGED <<blobs, clock, env, sched, reader, watch, dash>>

\* ------------------------------------------------- snapshot read surface
Respond(status, body) ==
    [pc |-> "responded", response |-> [status |-> status, body |-> body]]

\* GET of basketball-registrations is called: await list()
ReadRequest ==
    /\ reader.pc \in {"idle", "responded"}
    /\ reader' = [pc |-> "list", response |-> NoResponse]
    /\ UNCHANGED <<run, blobs, clock, env, sched, watch, dash>>

\* list() answered: blobs.find(pathname === BLOB_FILENAME), 404 when there
\* is none, else await fetch(regBlob.url); 500 when list() rejected
ReadList ==
    /\ reader.pc = "list"
    /\ \E ok \in BOOLEAN :
         reader' = IF ~ok THEN Respond(500, NoBlob)
                   ELSE IF blobs[BLOB_FILENAME] = NoBlob THEN Respond(404, NoBlob)
                   ELSE [pc |-> "fetch", response |-> NoResponse]
    /\ UNCHANGED <<run, blobs, clock, env, sched, watch, dash>>

\* fetch(regBlob.url) and response.text() answered: the body is returned as
\* it is, with the status 200, also when the fetch answered with an error
\* status (response.ok is not looked at); 500 when either rejected
ReadFetch ==
    /\ reader.pc = "fetch"
    /\ \E result \in {"ok", "httpError", "fail"} :
         reader' = CASE result = "ok" -> Respond(200, blobs[BLOB_FILENAME])
                     [] result = "httpError" -> Respond(200, ErrorPage)
                     [] OTHER -> Respond(500, NoBlob)
    /\ UNCHANGED <<run, blobs, clock, env, sched, watch, dash>>

\* ------------------------------------------------------------------ spec
\* The extraction taken alone: a manually triggered run that has found the
\* results table, one of SampleTables, and is about to evaluate its rows.
InitExtract ==
    /\ \E table \in SampleTables :
         run = [r \in Runs |->
                  IF r = 1
                  THEN [IdleRun EXCEPT !.pc = "extract", !.origin = "manual",
                                       !.browser = "open", !.page = TRUE,
                                       !.outcome = "pending", !.ack = Ack("manual"),
                                       !.table = table]
                  ELSE IdleRun]
    /\ blobs = [n \in {BLOB_FILENAME, SHOT_FILENAME} |-> NoBlob]
    /\ clock = 0
    /\ env = [recipient |-> TRUE, from |-> TRUE]
    /\ sched = "idle"
    /\ reader = [pc |-> "idle", response |-> NoResponse]
    /\ dash = DashInit
    /\ watch = 0

RunStep(r) ==
    \/ Launch(r)
    \/ NewPage(r)
    \/ Goto(r)
    \/ SelectMode(r)
    \/ SelectCategory(r)
    \/ SelectActivity(r)
    \/ Search(r)
    \/ WaitResults(r)
    \/ Extract(r)
    \/ PutSnapshot(r)
    \/ Send(r)
    \/ Screenshot(r)
    \/ PutScreenshot(r)
    \/ SendFailure(r)
    \/ Close(r)

Next ==
    \/ Start
    \/ Tick
    \/ ManualTrigger
    \/ \E r \in Runs : RunStep(r)

Spec == Init /\ [][Next]_vars

NextRead ==
    \/ Next
    \/ ReadRequest
    \/ ReadList
    \/ ReadFetch

SpecRead == Init /\ [][NextRead]_vars

\* no run is active, and the watched run is still to come
Quiet == run[watch].pc = "idle" /\ \A r \in Runs : run[r].pc \in {"idle", "done"}

NextSerial ==
    \/ Quiet /\ Start
    \/ Quiet /\ Tick
    \/ Quiet /\ ManualTrigger
    \/ \E r \in Runs : RunStep(r)

SpecSerial == InitSerial /\ [][NextSerial]_vars

\* ------------------------------------------------------- the dashboard
\* fetchData() up to `await fetch(...)`: setLoading(true)
FetchData(d, c) == [d EXCEPT !.loading = TRUE, !.fetches[c].pc = "fetch"]

\* the fetchData call c is the next one
FreeFetch(c) ==
    /\ dash.fetches[c].pc = "idle"
    /\ \A q \in FetchIds : q < c => dash.fetches[q].pc # "idle"

\* finally { setLoading(false); setRefreshing(false) }: the call c is over
FetchFinally(d, c, result) ==
    [d EXCEPT !.loading = FALSE, !.refreshing = FALSE,
              !.fetches[c] = [pc |-> "done", body |-> Null, result |-> result]]

\* catch (err) { setError('Failed to load ...') }, then finally
FetchCatch(d, c) == FetchFinally([d EXCEPT !.error = FailedToLoad], c, "failed")

\* useEffect(() => { fetchData(); setInterval(...) }, []): after the first
\* render
UseEffect ==
    /\ ~dash.mounted
    /\ \E c \in FetchIds :
         FreeFetch(c) /\ dash' = FetchData([dash EXCEPT !.mounted = TRUE], c)
    /\ UNCHANGED <<run, blobs, clock, env, sched, reader, watch>>

\* the interval of 30 minutes fires: () => fetchData()
AutoRefresh ==
    /\ dash.mounted
    /\ \E c \in FetchIds : FreeFetch(c) /\ dash' = FetchData(dash, c)
    /\ UNCHANGED <<run, blobs, clock, env, sched, reader, watch>>

\* handleRefresh, the onClick of the button, which is disabled while
\* loading || refreshing: setRefreshing(true); fetchData()
HandleRefresh ==
    /\ dash.mounted
    /\ ~(dash.loading \/ dash.refreshing)
    /\ \E c \in FetchIds :
         FreeFetch(c) /\ dash' = FetchData([dash EXCEPT !.refreshing = TRUE], c)
    /\ UNCHANGED <<run, blobs, clock, env, sched, reader, watch>>

\* const response = await fetch('/api/basketball-registrations'): an ok
\* response goes on to `await response.json()`; a rejected fetch and a
\* response that is not ok go to the catch block
FetchReturns(c) ==
    /\ dash.fetches[c].pc = "fetch"
    /\ \/ \E body \in Snapshots :
            dash' = [dash EXCEPT !.fetches[c] = [pc |-> "json", body |-> body,
                                                 result |-> "none"]]
       \/ dash' = FetchCatch(dash, c)
    /\ UNCHANGED <<run, blobs, clock, env, sched, reader, watch>>

\* const result = await response.json(); setData(result); setError(null);
\* a body that does not parse goes to the catch block
JsonReturns(c) ==
    /\ dash.fetches[c].pc = "json"
    /\ \/ dash' = FetchFinally([dash EXCEPT !.data = dash.fetches[c].body,
                                            !.error = Null], c, "ok")
       \/ dash' = FetchCatch(dash, c)
    /\ UNCHANGED <<run, blobs, clock, env, sched, reader, watch>>

NextDashboard ==
    \/ UseEffect
    \/ AutoRefresh
    \/ HandleRefresh
    \/ \E c \in FetchIds : FetchReturns(c)
    \/ \E c \in FetchIds : JsonReturns(c)

SpecDashboard == Init /\ [][NextDashboard]_vars

\* ------------------------------------------- the file-based scraper
\* app/api/basketball-registrations/route.ts keeps a scraper of its own that
\* writes the snapshot and the screenshot to files.  Its scrape() has the
\* code of the blob-based one up to the extraction, and its sendEmail,
\* sgMail.send and browser.close() steps are the same; `blobs` holds its
\* two files.

\* a file that a failed write left incomplete
Partial == [kind |-> "partial"]

\* fs.writeFile(path, body): the files after the call; a failed write
\* leaves the file as it was or incomplete
WriteFile(files, path, body, ok) ==
    IF ok THEN {[files EXCEPT ![path] = body]}
    ELSE {files, [files EXCEPT ![path] = Partial]}

\* const registrations = await page.evaluate(...), then saveData up to
\* `await fs.mkdir(...)`
FileExtract(r) ==
    /\ run[r].pc = "extract"
    /\ \E ok \in BOOLEAN :
         run' = [run EXCEPT ![r] =
            IF ok
            THEN [Logged(Logged(@, "extract", "ok"), "saveData", "call") EXCEPT
                     !.registrations = ExtractRows(run[r].table), !.pc = "mkdir"]
            ELSE Catch(Logged(@, "extract", "fail"))]
    /\ UNCHANGED <<blobs, clock, env, sched, reader, watch, dash>>

\* await fs.mkdir(path.dirname(DATA_FILE_PATH), { recursive: true }), then
\* the RegistrationData with the timestamp read now, up to the await of
\* fs.writeFile; on failure saveData rethrows into the catch block
FileMkdir(r) ==
    /\ run[r].pc = "mkdir"
    /\ \/ /\ clock' = clock + 1
          /\ run' = [run EXCEPT ![r] =
                [Logged(@, "mkdir", "ok") EXCEPT
                    !.pc = "writeFile",
                    !.data = RegistrationData(clock', run[r].registrations)]]
       \/ /\ run' = [run EXCEPT ![r] = Catch(Logged(@, "mkdir", "fail"))]
          /\ UNCHANGED clock
    /\ UNCHANGED <<blobs, env, sched, reader, watch, dash>>

\* saveData after `await fs.writeFile(...)`: scrape() calls
\* sendEmail(registrations), which takes no location; on failure saveData
\* rethrows into the catch block
FileSaved(rec, ok) ==
    IF ok
    THEN SendEmail([Logged(rec, "writeFile", "ok") EXCEPT !.data = NoData],
                   rec.registrations, NoUrl, "send")
    ELSE Catch(Logged(rec, "writeFile", "fail"))

\* await fs.writeFile(DATA_FILE_PATH, JSON.stringify(data, null, 2))
FileWriteFile(r) ==
    /\ run[r].pc = "writeFile"
    /\ \E ok \in BOOLEAN :
         /\ blobs' \in WriteFile(blobs, BLOB_FILENAME, run[r].data, ok)
         /\ run' = [run EXCEPT ![r] = FileSaved(@, ok)]
    /\ UNCHANGED <<clock, env, sched, reader, watch, dash>>

\* after `await page.screenshot({ path: 'error-screenshot.png' })` in the
\* catch block: no inner try/catch, so a failure leaves the catch block for
\* the finally block and scrape() rejects with it; on success
\* sendEmail([]) is called
FileCaptured(rec, ok) ==
    IF ok
    THEN AfterCapture(Logged(rec, "screenshot", "ok"))
    ELSE Finally([Logged(rec, "screenshot", "fail") EXCEPT !.error = "CaptureError"])

\* await page.screenshot({ path: 'error-screenshot.png' })
FileScreenshot(r) ==
    /\ run[r].pc = "screenshot"
    /\ \E ok \in BOOLEAN :
         /\ blobs' \in WriteFile(blobs, SHOT_FILENAME, Png, ok)
         /\ run' = [run EXCEPT ![r] = FileCaptured(@, ok)]
    /\ UNCHANGED <<clock, env, sched, reader, watch, dash>>

\* the steps of scrape() of the file-based scraper
FileRunStep(r) ==
    \/ Launch(r)
    \/ NewPage(r)
    \/ Goto(r)
    \/ SelectMode(r)
    \/ SelectCategory(r)
    \/ SelectActivity(r)
    \/ Search(r)
    \/ WaitResults(r)
    \/ FileExtract(r)
    \/ FileMkdir(r)
    \/ FileWriteFile(r)
    \/ Send(r)
    \/ FileScreenshot(r)
    \/ SendFailure(r)
    \/ Close(r)

\* the kinds of awaited operations of a run, and the kind of each step
StepKinds == {"launch", "newPage", "navigation", "selection", "search", "wait",
              "extract", "persist", "screenshot", "delivery", "close"}

KindOf(step) ==
    CASE step = "goto" -> "navigation"
      [] step \in {"selectMode", "selectCategory", "selectActivity"} -> "selection"
      [] step = "waitResults" -> "wait"
      [] step \in {"put", "mkdir", "writeFile"} -> "persist"
      [] step \in {"screenshot", "putScreenshot"} -> "screenshot"
      [] step = "sgMail.send" -> "delivery"
      [] OTHER -> step

\* the two scrapers under the same behaviour of the services: run 1 is a
\* scrape() of the blob-based scraper, run 2 one of the file-based scraper,
\* and env.outcome says for each kind of operation whether it succeeds
InitVariants ==
    /\ run = [r \in Runs |->
                IF r \in {1, 2}
                THEN [IdleRun EXCEPT !.pc = "launch", !.origin = "tick",
                                     !.outcome = "pending", !.ack = Ack("tick"),
                                     !.watched = TRUE]
                ELSE IdleRun]
    /\ blobs = [n \in {BLOB_FILENAME, SHOT_FILENAME} |-> NoBlob]
    /\ clock = 0
    /\ env \in [recipient : BOOLEAN, from : BOOLEAN, outcome : [StepKinds -> BOOLEAN]]
    /\ sched = "armed"
    /\ reader = [pc |-> "idle", response |-> NoResponse]
    /\ dash = DashInit
    /\ watch = 1

\* the results logged by the run are the ones env.outcome prescribes: an
\* operation fails only when its kind fails, and when its kind fails the
\* operation fails unless a later one of the same kind can (`twoPart`: the
\* first of two operations that make up one kind)
Prescribed(rec, twoPart) ==
    \A i \in DOMAIN rec.log :
        LET step   == rec.log[i][1]
            result == rec.log[i][2]
        IN  /\ result = "fail" => ~env.outcome[KindOf(step)]
            /\ result \in {"ok", "absent"} =>
                   (env.outcome[KindOf(step)] \/ step \in twoPart)

BlobStep == RunStep(1) /\ Prescribed(run'[1], {"screenshot"})

\* the file-based run is taken after the blob-based one
FileStep ==
    /\ run[1].pc = "done"
    /\ FileRunStep(2)
    /\ Prescribed(run'[2], {"mkdir"})

NextVariants == BlobStep \/ FileStep

SpecVariants == InitVariants /\ [][NextVariants]_vars

\* sendEmail taken alone: a call with any registrations and with or without
\* a location, under any configuration of the two addresses
InitMail ==
    /\ \E table \in SampleTables :
         run = [r \in Runs |->
                  IF r = 1
                  THEN [IdleRun EXCEPT !.pc = "sendEmail", !.origin = "manual",
                                       !.browser = "open", !.page = TRUE,
                                       !.outcome = "pending", !.ack = Ack("manual"),
                                       !.watched = TRUE,
                                       !.registrations = ExtractRows(table)]
                  ELSE IdleRun]
    /\ blobs = [n \in {BLOB_FILENAME, SHOT_FILENAME} |-> NoBlob]
    /\ clock = 0
    /\ env \in [recipient : BOOLEAN, from : BOOLEAN]
    /\ sched = "idle"
    /\ reader = [pc |-> "idle", response |-> NoResponse]
    /\ dash = DashInit
    /\ watch = 1

\* this.sendEmail(registrations, blobUrl?) up to its await
CallSendEmail(r) ==
    /\ run[r].pc = "sendEmail"
    /\ \E blobUrl \in {NoUrl, UrlOf(BLOB_FILENAME)} :
         run' = [run EXCEPT ![r] = SendEmail(@, @.registrations, blobUrl, "send")]
    /\ UNCHANGED <<blobs, clock, env, sched, reader, watch, dash>>

NextMail == \E r \in Runs : CallSendEmail(r)

SpecMail == InitMail /\ [][NextMail]_vars

\* every awaited operation of a run settles: the step of a run that waits
\* for one is eventually taken (the event loop resumes the continuation of
\* a settled promise); no fairness for the timer or the requests
Fairness == \A r \in Runs : WF_vars(RunStep(r))

SpecLive == Init /\ [][Next]_vars /\ Fairness

NextExtract == \E r \in Runs : Extract(r)

SpecExtract == InitExtract /\ [][NextExtract]_vars

\* ---------------------------------------------------------------- claims
Configured == env.recipient /\ env.from

Events(rec) == {rec.log[i] : i \in DOMAIN rec.log}

Happened(rec, step, result) == <<step, result>> \in Events(rec)

\* the positions of the log at which the step was logged with the result
Times(rec, step, result) == {i \in DOMAIN rec.log : rec.log[i] = <<step, result>>}

\* browser.close() was called and answered
Closings(rec) == Times(rec, "close", "ok") \cup Times(rec, "close", "fail")

\* the message of sendEmail([])
NoResultsMessage == Message(<<>>, NoUrl)

EmptyCall == [registrations |-> <<>>, blobUrl |-> NoUrl]

Watched == {r \in Runs : run[r].watched}

\* C1: a run that launched its browser has executed browser.close() exactly
\* once when it ends, on every exit path, and the close is the last step of
\* the run: no persist, screenshot or mail step of the run is logged after it
\* and none is enabled.
C1_ClosedOnceAtTheEnd ==
    \A r \in Watched :
        LET closings == Closings(run[r])
        IN  /\ Cardinality(closings) <= 1
            /\ \A i \in closings : i = Len(run[r].log)
            /\ (closings # {}) => (run[r].pc = "done" /\ ~ENABLED RunStep(r))
            /\ (run[r].pc = "done" /\ Happened(run[r], "launch", "ok"))
                  => Cardinality(closings) = 1

\* a run that ended by rejecting with the delivery error of the failure
\* path, after a failed persist and a failed screenshot, closed once
C1_Witness ==
    \E r \in Watched :
        /\ run[r].pc = "done"
        /\ run[r].error = "DeliveryError"
        /\ Happened(run[r], "put", "fail")
        /\ Happened(run[r], "screenshot", "fail")
        /\ Cardinality(Closings(run[r])) = 1

\* the run is past the inner try/catch around the screenshot
CaptureFailed(rec) ==
    Happened(rec, "screenshot", "fail") \/ Happened(rec, "putScreenshot", "fail")

\* C2: (as claimed) neither scrape() nor start() lets a failure out: no run
\* ends rejected and start() never fails before scheduling the interval.
C2_NoFailureLeavesTheRun ==
    /\ \A r \in Runs : run[r].outcome # "rejected"
    /\ sched # "failed"

\* C3: a failure of the screenshot or of its upload is swallowed: the run
\* still calls sendEmail([]) right after it, and the error the run may end
\* with is never the one of the capture.
C3_CaptureFailureSwallowed ==
    \A r \in Watched :
        CaptureFailed(run[r]) =>
            /\ run[r].pc \in {"sendFailure", "close", "done"}
            /\ run[r].calls # <<>>
            /\ run[r].calls[Len(run[r].calls)] = EmptyCall
            /\ run[r].error \in {"none", "DeliveryError", "CloseError"}
            /\ (Configured /\ ~Happened(run[r], "sgMail.send", "fail")
                  /\ run[r].pc \in {"close", "done"})
                  => run[r].sent = <<NoResultsMessage>>

\* the upload of the screenshot failed, the no-results message was
\* delivered and the run resolved
C3_Witness ==
    \E r \in Watched :
        /\ Happened(run[r], "putScreenshot", "fail")
        /\ run[r].sent = <<NoResultsMessage>>
        /\ run[r].outcome = "resolved"

\* C4: (as claimed) a run that has ended has dispatched exactly one message.
C4_ExactlyOneMessage ==
    \A r \in Watched : run[r].pc = "done" => Len(run[r].sent) = 1

\* C4 (amended): a run dispatches at most one message, and a run that has
\* ended has dispatched exactly one when both addresses are configured, the
\* page was obtained and the delivery channel rejected no send of the run.
C4_AtMostOneMessage ==
    \A r \in Watched :
        /\ Len(run[r].sent) <= 1
        /\ (/\ run[r].pc = "done"
            /\ Configured
            /\ Happened(run[r], "newPage", "ok")
            /\ ~Happened(run[r], "sgMail.send", "fail"))
              => Len(run[r].sent) = 1

\* a failed run that ended with its one message delivered
C4_Witness ==
    \E r \in Watched :
        /\ run[r].pc = "done"
        /\ Happened(run[r], "goto", "fail")
        /\ Len(run[r].sent) = 1

C6_EmptyAndFailedDistinguishable ==
    \A r1, r2 \in Runs :
        (/\ clock = 1
         /\ run[r1].pc = "send"
         /\ run[r1].registrations = <<>>
         /\ run[r2].pc = "sendFailure")
          => run[r1].msg # run[r2].msg

\* C7: (as claimed) a timeout of the wait for the results table leaves the
\* run on the success path: no screenshot is taken and the run ends with an
\* empty snapshot persisted and the no-results message called for.
C7_TimeoutTakesSuccessPath ==
    \A r \in Watched :
        Happened(run[r], "waitResults", "fail") =>
            /\ run[r].pc \notin {"screenshot", "putScreenshot", "sendFailure"}
            /\ run[r].pc = "done" => Happened(run[r], "put", "ok")

\* C7 (amended): a timeout of the wait for the results table puts the run on
\* the failure path: nothing is extracted or persisted by the run, the
\* screenshot is attempted and sendEmail([]) is the only notification called.
C7_TimeoutTakesFailurePath ==
    \A r \in Watched :
        Happened(run[r], "waitResults", "fail") =>
            /\ \A res \in {"ok", "fail"} :
                  /\ ~Happened(run[r], "extract", res)
                  /\ ~Happened(run[r], "put", res)
            /\ ~Happened(run[r], "saveData", "call")
            /\ run[r].registrations = <<>>
            /\ run[r].pc \in {"screenshot", "putScreenshot", "sendFailure", "close", "done"}
            /\ run[r].pc # "screenshot"
                  => Happened(run[r], "screenshot", "ok") \/ Happened(run[r], "screenshot", "fail")
            /\ run[r].pc \in {"sendFailure", "close", "done"} => run[r].calls = <<EmptyCall>>
            /\ \A i \in DOMAIN run[r].sent : run[r].sent[i] = NoResultsMessage

\* the wait timed out, the screenshot was stored and the run ended
C7_Witness ==
    \E r \in Watched :
        /\ Happened(run[r], "waitResults", "fail")
        /\ Happened(run[r], "putScreenshot", "ok")
        /\ run[r].sent = <<NoResultsMessage>>
        /\ run[r].pc = "done"

\* C8: with the recipient or the sender address missing, sendEmail returns
\* without a delivery attempt and without an error; on the success path the
\* snapshot of the run stays stored, no screenshot is taken and the run goes
\* on to close the browser.
C8_MissingConfigIsSilent ==
    \A r \in Watched :
        ~Configured =>
            /\ \A res \in {"call", "ok", "fail"} : ~Happened(run[r], "sgMail.send", res)
            /\ run[r].sent = <<>>
            /\ run[r].error \in {"none", "LaunchError", "CloseError"}
            /\ run[r].calls # <<>> => run[r].pc \in {"close", "done"}
            /\ Happened(run[r], "put", "ok") =>
                  /\ run[r].pc \in {"close", "done"}
                  /\ Len(run[r].calls) = 1
                  /\ run[r].calls[1].registrations = run[r].registrations
                  /\ blobs[BLOB_FILENAME] = RegistrationData(clock, run[r].registrations)
                  /\ \A res \in {"ok", "fail"} : ~Happened(run[r], "screenshot", res)
                  /\ run[r].pc = "done" => Closings(run[r]) = {Len(run[r].log)}

\* no sender address: the run stored a snapshot with a row, skipped the
\* mail and resolved
C8_Witness ==
    \E r \in Watched :
        /\ env.recipient /\ ~env.from
        /\ Happened(run[r], "put", "ok")
        /\ Happened(run[r], "sendEmail", "skip")
        /\ run[r].registrations # <<>>
        /\ run[r].outcome = "resolved"

\* the step of run r is its put of the snapshot, resolved
SuccessfulSave(r) ==
    /\ run[r].pc = "put"
    /\ run'[r].pc \in {"send", "close"}

\* a complete snapshot: the timestamp of a saveData and the rows of a table
Complete(blob) ==
    /\ blob.kind = "json"
    /\ blob.timestamp \in 1..clock
    /\ \E table \in Tables : blob.registrations = ExtractRows(table)

\* the step is a read that answers with data
ReadAnswers ==
    /\ reader.pc = "fetch"
    /\ reader'.pc = "responded"
    /\ reader'.response.status = 200
    /\ reader'.response.body # ErrorPage

\* C9: the stored snapshot changes only in the step in which a run's put of
\* the snapshot resolves, and then to the complete data of that run; every
\* other step of any run, failed or not, leaves it as it is, and a read that
\* answers with data answers with the stored snapshot, complete.
C9_SnapshotChangesOnlyBySuccessfulSave ==
    [][/\ blobs'[BLOB_FILENAME] # blobs[BLOB_FILENAME] =>
            \E r \in Runs :
                /\ SuccessfulSave(r)
                /\ blobs'[BLOB_FILENAME] = run[r].data
                /\ run[r].data = RegistrationData(run[r].data.timestamp,
                                                  run[r].registrations)
                /\ Complete(run[r].data)
       /\ ReadAnswers =>
            /\ reader'.response.body = blobs[BLOB_FILENAME]
            /\ Complete(reader'.response.body)]_vars

\* a read answered with the stored snapshot while one run is sending its
\* results and another, having stored its screenshot, is on the failure path
C9_Witness ==
    /\ reader.pc = "responded"
    /\ reader.response.status = 200
    /\ reader.response.body = blobs[BLOB_FILENAME]
    /\ blobs[BLOB_FILENAME].kind = "json"
    /\ blobs[SHOT_FILENAME] = Png
    /\ \E r1, r2 \in Runs : run[r1].pc = "send" /\ run[r2].pc = "sendFailure"

\* C10: once a snapshot is stored, every step of a run, a read or a trigger
\* leaves a complete snapshot stored under the same name.
C10_SnapshotNeverDeleted ==
    [][blobs[BLOB_FILENAME] # NoBlob =>
          /\ blobs'[BLOB_FILENAME] # NoBlob
          /\ Complete(blobs'[BLOB_FILENAME])]_vars

\* all runs have ended, a later saveData failed, a read came after it and
\* the earlier snapshot is still stored
C10_Witness ==
    /\ \A r \in Runs : run[r].pc = "done"
    /\ blobs[BLOB_FILENAME].kind = "json"
    /\ blobs[BLOB_FILENAME].timestamp < clock
    /\ reader.response.status = 200
    /\ reader.response.body = blobs[BLOB_FILENAME]

\* the invocation r of scrape() has started and has not finished
Active(r) == run[r].pc \notin {"idle", "done"}

\* C11: (as claimed) at most one run is active at a time: no scrape() starts
\* while another has not finished.
C11_NoOverlap ==
    Cardinality({r \in Runs : Active(r)}) <= 1

\* the rows of a results table after its header row
NonHeaderRows(table) == IF table = <<>> THEN <<>> ELSE Tail(table)

\* C12: after a successful extraction the run holds one registration per
\* non-header row of the results table, the i-th built from the i-th row:
\* the order of the rows is kept and so are repeated rows; the same sequence
\* goes into the data to be saved.
C12_OneRegistrationPerRow ==
    \A r \in Runs :
        run[r].pc = "put" =>
            LET rows == NonHeaderRows(run[r].table)
                regs == run[r].registrations
            IN  /\ Len(regs) = Len(rows)
                /\ \A i \in DOMAIN rows : regs[i] = RowToRegistration(rows[i])
                /\ run[r].data.registrations = regs

\* a table whose two data rows are the same six-cell row gave two equal
\* registrations, with a non-empty field
C12_Witness ==
    \E r \in Runs :
        /\ run[r].pc = "put"
        /\ Len(run[r].table) = 3
        /\ run[r].table[2] = run[r].table[3]
        /\ Len(run[r].registrations) = 2
        /\ run[r].registrations[1] = run[r].registrations[2]
        /\ run[r].registrations[1].horario = <<"H">>

FiveCellTable ==
    <<HeaderRow,
      << <<"A">>, <<"B">>, <<"C">>, <<"D">>, <<"E">> >>,
      << <<"F">>, <<"G">>, <<"H">>, <<"I">>, <<"J">> >> >>

FieldsOf(a, b, c, d, e) ==
    [polideportivo |-> a, categoria |-> b, actividad |-> c,
     subcategoria |-> d, horario |-> e]

\* C13: (as claimed) from the table [header, {A,B,C,D,E}, {F,G,H,I,J}] the
\* extraction yields (A,B,C,D,E) and (F,G,H,I,J): the k-th cell of a row is
\* the k-th field.
C13_FiveCellsInOrder ==
    \A r \in Runs :
        (run[r].pc = "put" /\ run[r].table = FiveCellTable) =>
            run[r].registrations =
                << FieldsOf(<<"A">>, <<"B">>, <<"C">>, <<"D">>, <<"E">>),
                   FieldsOf(<<"F">>, <<"G">>, <<"H">>, <<"I">>, <<"J">>) >>

\* C14: (as claimed) the read handler answers in one of three ways: not
\* found (404), an error response when the storage backend failed (500), or
\* else (200) the content of a stored snapshot.
C14_ThreeAnswers ==
    reader.pc = "responded" =>
        \/ reader.response.status = 404
        \/ reader.response.status = 500
        \/ /\ reader.response.status = 200
           /\ Complete(reader.response.body)

SixCellTable == <<HeaderRow, DataRow(1), DataRow(2)>>

\* the trimmed text of the n-th cell of a row, empty when the row is shorter
TextAt(row, n) == IF n \in DOMAIN row THEN Trim(row[n]) ELSE <<>>

\* C13 (amended): the k-th field of a registration is the trimmed text of
\* the cell after the k-th cell of its row, the first cell of a row is not
\* read and a missing cell gives the empty text: rows of six cells
\* {X,A,B,C,D,E} give (A,B,C,D,E), and the rows {A,B,C,D,E} and {F,G,H,I,J}
\* give (B,C,D,E,'') and (G,H,I,J,'').
C13_FieldsFromSecondCellOn ==
    \A r \in Runs :
        run[r].pc = "put" =>
            LET rows == NonHeaderRows(run[r].table)
                regs == run[r].registrations
            IN  /\ DOMAIN regs = DOMAIN rows
                /\ \A i \in DOMAIN rows :
                      regs[i] = FieldsOf(TextAt(rows[i], 2), TextAt(rows[i], 3),
                                         TextAt(rows[i], 4), TextAt(rows[i], 5),
                                         TextAt(rows[i], 6))
                /\ run[r].table = FiveCellTable =>
                      regs = << FieldsOf(<<"B">>, <<"C">>, <<"D">>, <<"E">>, <<>>),
                                FieldsOf(<<"G">>, <<"H">>, <<"I">>, <<"J">>, <<>>) >>
                /\ run[r].table = SixCellTable =>
                      regs = << FieldsOf(<<"P", "a">>, <<"C">>, <<"A">>, <<"S", "a">>, <<"H">>),
                                FieldsOf(<<"P", "b">>, <<"C">>, <<"A">>, <<"S", "b">>, <<"H">>) >>

\* the table with the rows {A,B,C,D,E} and {F,G,H,I,J} has been extracted
C13_Witness ==
    \E r \in Runs :
        /\ run[r].pc = "put"
        /\ run[r].table = FiveCellTable
        /\ Len(run[r].registrations) = 2
        /\ run[r].registrations[1].polideportivo = <<"B">>
        /\ run[r].registrations[2].horario = <<>>

\* the step is a manual trigger: a run appears with the origin "manual"
Triggered(r) == run[r].pc = "idle" /\ run'[r].origin = "manual"

\* C15: a manual trigger starts exactly one run and answers with the success
\* acknowledgement while that run is only at its first await; the answer is
\* the same through every later step and outcome of the run, and a
\* rejection of the run is caught, never unhandled or raised.
C15_TriggerFireAndForget ==
    [][/\ \A r \in Runs :
            Triggered(r) =>
                /\ run'[r].pc = "launch"
                /\ run'[r].outcome = "pending"
                /\ run'[r].ack = "success"
                /\ \A q \in Runs \ {r} : run'[q] = run[q]
       /\ \A r \in Runs :
            run'[r].origin = "manual" =>
                /\ run'[r].ack = "success"
                /\ run'[r].rejection \in {"none", "caught"}
                /\ run'[r].outcome = "rejected" => run'[r].rejection = "caught"]_vars

\* a manually triggered run that rejected while another run was going on;
\* its acknowledgement is the success one and the rejection was caught
C15_Witness ==
    \E r, q \in Runs :
        /\ run[r].origin = "manual"
        /\ run[r].outcome = "rejected"
        /\ run[r].error = "DeliveryError"
        /\ run[r].ack = "success"
        /\ run[r].rejection = "caught"
        /\ Active(q)

\* the initial run of start() has ended and resolved
InitialRunResolved ==
    \E r \in Runs : /\ run[r].origin = "start"
                    /\ run[r].pc = "done"
                    /\ run[r].outcome = "resolved"

\* C16: the interval is armed only after the initial run of start() has run
\* to its end: while that run is in progress no tick can fire; once it has
\* resolved the interval is armed in every later state, and a tick can call
\* scrape() whenever the interval is armed, whatever the other runs do.
C16_TimerArmedAfterInitialRun ==
    /\ Cardinality({r \in Runs : run[r].origin = "start"}) <= 1
    /\ sched = "armed" <=> InitialRunResolved
    /\ sched = "awaiting" <=> \E r \in Runs : run[r].origin = "start" /\ Active(r)
    /\ sched = "awaiting" => ~ENABLED Tick
    /\ \A r \in Runs : run[r].origin = "tick" => sched = "armed"
    /\ (sched = "armed" /\ \E r \in Runs : run[r].pc = "idle") => ENABLED Tick

\* the initial run resolved, a tick has started a run that is still going
\* on, and the interval can fire again
C16_Witness ==
    /\ InitialRunResolved
    /\ \E r \in Runs : run[r].origin = "tick" /\ Active(r)
    /\ sched = "armed"

\* the positions of the log at which sendEmail was entered: it went on to
\* sgMail.send or returned for a missing address
SendEmailEntries(rec) ==
    Times(rec, "sgMail.send", "call") \cup Times(rec, "sendEmail", "skip")

\* the positions of the log at which the screenshot was attempted
CaptureAttempts(rec) ==
    Times(rec, "screenshot", "ok") \cup Times(rec, "screenshot", "fail")

\* C17: every sendEmail call of a run is one of two.  The call with a url is
\* the first, comes after the put of saveData has resolved, and gets the url
\* of the snapshot and the registrations that were stored in it.  The call
\* without a url is sendEmail([]), is the last, and comes after an attempt
\* of the screenshot.
C17_SaveThenNotify ==
    \A r \in Watched :
        LET rec == run[r]
            entries == SendEmailEntries(rec)
        IN  /\ Cardinality(entries) = Len(rec.calls)
            /\ \A k \in DOMAIN rec.calls :
                 IF rec.calls[k].blobUrl # NoUrl
                 THEN /\ k = 1
                      /\ rec.calls[k].blobUrl = UrlOf(BLOB_FILENAME)
                      /\ \E p \in Times(rec, "put", "ok") : \A e \in entries : p < e
                      /\ blobs[BLOB_FILENAME].kind = "json"
                      /\ blobs[BLOB_FILENAME].registrations = rec.calls[k].registrations
                      /\ \A i \in DOMAIN rec.log :
                           rec.log[i][1] = "extract" => rec.log[i][2] = "ok"
                 ELSE /\ k = Len(rec.calls)
                      /\ rec.calls[k] = EmptyCall
                      /\ \E c \in CaptureAttempts(rec) :
                           \A e \in entries : (\A f \in entries : f <= e) => c < e

\* a run saved a row, had its results message rejected, took the screenshot
\* and called sendEmail([])
C17_Witness ==
    \E r \in Watched :
        /\ Len(run[r].calls) = 2
        /\ run[r].calls[1].registrations # <<>>
        /\ run[r].calls[1].blobUrl = UrlOf(BLOB_FILENAME)
        /\ run[r].calls[2] = EmptyCall
        /\ run[r].pc = "done"

\* the steps awaited inside the try block once the page is there
PageSteps ==
    {"goto", "selectMode", "selectCategory", "selectActivity", "search",
     "waitResults", "extract", "put"}

\* an error was thrown inside the try block after the page was obtained: a
\* page step failed, or the send of the results message was rejected
FailedWithPage(rec) ==
    \/ \E i \in DOMAIN rec.log : rec.log[i][2] = "fail" /\ rec.log[i][1] \in PageSteps
    \/ Happened(rec, "put", "ok") /\ Happened(rec, "sgMail.send", "fail")

\* C18: a run whose newPage failed attempts no screenshot, calls no
\* sendEmail and goes straight to closing the browser; a run that failed
\* with its page attempts the screenshot and then calls sendEmail([]).
C18_CaptureOnlyWithPage ==
    \A r \in Watched :
        LET rec == run[r]
        IN  /\ Happened(rec, "newPage", "fail") =>
                 /\ ~rec.page
                 /\ CaptureAttempts(rec) = {}
                 /\ \A res \in {"ok", "fail"} : ~Happened(rec, "putScreenshot", res)
                 /\ rec.calls = <<>>
                 /\ rec.sent = <<>>
                 /\ rec.pc \in {"close", "done"}
                 /\ \A i \in DOMAIN rec.log :
                      rec.log[i][1] \in {"launch", "newPage", "close"}
            /\ FailedWithPage(rec) =>
                 /\ rec.page
                 /\ rec.pc \in {"screenshot", "putScreenshot", "sendFailure", "close", "done"}
                 /\ rec.pc # "screenshot" => CaptureAttempts(rec) # {}
                 /\ rec.pc \in {"sendFailure", "close", "done"} =>
                      /\ rec.calls # <<>>
                      /\ rec.calls[Len(rec.calls)] = EmptyCall

\* newPage failed, and the run ended with the browser closed and nothing
\* but launch, newPage and close in its log
C18_Witness ==
    \E r \in Watched :
        /\ Happened(run[r], "newPage", "fail")
        /\ run[r].pc = "done"
        /\ run[r].browser = "closed"
        /\ run[r].outcome = "resolved"

FailurePath == {"screenshot", "putScreenshot", "sendFailure", "close", "done"}

\* C19: (as claimed) a run in which one of the steps 1-6 timed out or did not
\* find its element (the radio button, a dropdown, the search button, the
\* results table) is on the failure path and never saves.
C19_MissingElementFailsTheRun ==
    \A r \in Watched :
        (\/ \E step \in PageSteps \ {"extract", "put"} : Happened(run[r], step, "fail")
         \/ Happened(run[r], "selectMode", "absent"))
          => /\ run[r].pc \in FailurePath
             /\ ~Happened(run[r], "saveData", "call")

\* C20: (as claimed) a run whose extraction succeeded never writes the
\* screenshot, whatever its persist and notify steps do.
C20_ScreenshotOnlyAfterFailedExtraction ==
    \A r \in Watched :
        Happened(run[r], "extract", "ok") =>
            /\ ~Happened(run[r], "putScreenshot", "ok")
            /\ run[r].pc # "putScreenshot"

\* C21: (as claimed) in one run the put of the snapshot, the screenshot and
\* sgMail.send are each attempted at most once.
C21_NoStepTwice ==
    \A r \in Watched :
        /\ Cardinality(Times(run[r], "saveData", "call")) <= 1
        /\ Cardinality(CaptureAttempts(run[r])) <= 1
        /\ Cardinality(Times(run[r], "sgMail.send", "call")) <= 1

\* the steps of the try block after newPage, in the order of the code; the
\* notify step sendEmail(registrations, blobUrl) follows the last of them
TrySteps ==
    <<"goto", "selectMode", "selectCategory", "selectActivity", "search",
      "waitResults", "extract", "put">>

\* the log entry is the end of a step of the try block
IsTryStep(entry) == entry[1] \in PageSteps

\* C22: the steps of the try block run one after the other.  The steps that
\* ended are the first steps of the code's order, each ended once and in
\* that order, and all but the last of them ended without an error; the
\* step a run is waiting for comes right after them, none of them failed
\* and sendEmail has not been called; after a step ended with an error
\* sendEmail(registrations, blobUrl) is not called; and that call comes
\* only after all the steps, the put last, ended without an error.
C22_StepsInOrder ==
    \A r \in Watched :
        LET rec   == run[r]
            ended == SelectSeq(rec.log, IsTryStep)
            n     == Len(ended)
        IN  /\ n <= Len(TrySteps)
            /\ \A i \in 1..n :
                 /\ ended[i][1] = TrySteps[i]
                 /\ i < n => ended[i][2] \in {"ok", "absent"}
            /\ \A k \in DOMAIN TrySteps :
                 rec.pc = TrySteps[k] =>
                     /\ n = k - 1
                     /\ n > 0 => ended[n][2] \in {"ok", "absent"}
                     /\ rec.calls = <<>>
            /\ (n > 0 /\ ended[n][2] = "fail") =>
                 \A c \in DOMAIN rec.calls : rec.calls[c].blobUrl = NoUrl
            /\ n > 0 => Happened(rec, "newPage", "ok")
            /\ \A c \in DOMAIN rec.calls :
                 rec.calls[c].blobUrl # NoUrl =>
                     (n = Len(TrySteps) /\ ended[n][2] = "ok")

\* a run ended after its activity selection failed: the steps before it
\* ended without an error
C22_Witness ==
    \E r \in Watched :
        /\ Happened(run[r], "selectActivity", "fail")
        /\ Happened(run[r], "selectCategory", "ok")
        /\ run[r].pc = "done"

\* C23: a run between its launch and its close has its own browser open; a
\* browser changes only in a step of the run that launched it (its launch
\* or its close), and that step leaves every other run as it is; a run
\* whose browser is closed has ended and takes no further step.
C23_OwnBrowserOnly ==
    [][\A r \in Runs :
          /\ (run'[r].pc \notin {"idle", "launch", "done"}) => run'[r].browser = "open"
          /\ run'[r].browser = "closed" => run'[r].pc = "done"
          /\ run'[r].browser # run[r].browser =>
                /\ run[r].pc \in {"launch", "close"}
                /\ \A q \in Runs \ {r} : run'[q] = run[q]
          /\ run[r].browser = "closed" => run'[r] = run[r]]_vars

\* one run has closed its browser while another, started before the close,
\* is evaluating the page in its own open browser
C23_Witness ==
    \E r, q \in Runs :
        /\ run[r].browser = "closed"
        /\ run[q].pc = "extract"
        /\ run[q].browser = "open"

FieldNames == <<"polideportivo", "categoria", "actividad", "subcategoria", "horario">>

\* the row has no cell for the k-th field, or one without text or with
\* whitespace only
BlankOrMissing(row, k) ==
    \/ k + 1 \notin DOMAIN row
    \/ \A n \in DOMAIN row[k + 1] : row[k + 1][n] = " "

\* C24: the extraction of a found table can always go through, whatever
\* cells its rows have; every row gives a registration with the five
\* fields, and a field whose cell is missing, empty or whitespace only is
\* the empty text.
C24_BlankCellsGiveEmptyFields ==
    \A r \in Runs :
        /\ run[r].pc = "extract" => ENABLED (Extract(r) /\ run'[r].pc = "put")
        /\ run[r].pc = "put" =>
             LET rows == NonHeaderRows(run[r].table)
                 regs == run[r].registrations
             IN  /\ Len(regs) = Len(rows)
                 /\ \A i \in DOMAIN rows :
                      /\ DOMAIN regs[i] = {FieldNames[k] : k \in DOMAIN FieldNames}
                      /\ \A k \in DOMAIN FieldNames :
                           BlankOrMissing(rows[i], k) => regs[i][FieldNames[k]] = <<>>

\* a row of blank cells and a row without cells were extracted: the first
\* gave two empty fields beside two with text, the second five empty fields
C24_Witness ==
    \E r \in Runs :
        /\ run[r].pc = "put"
        /\ run[r].table = <<HeaderRow, BlankRow, <<>> >>
        /\ run[r].registrations[1].polideportivo = <<>>
        /\ run[r].registrations[1].actividad = <<>>
        /\ run[r].registrations[1].subcategoria = <<"S">>
        /\ run[r].registrations[2] = FieldsOf(<<>>, <<>>, <<>>, <<>>, <<>>)

\* C25: (as claimed) every started run eventually ends with its browser
\* closed.
C25_EndsWithBrowserClosed ==
    \A r \in Runs :
        (run[r].pc # "idle") ~> (run[r].pc = "done" /\ run[r].browser = "closed")

\* C25: (amended) when every awaited operation settles, every started run
\* eventually ends, and it ends with its browser closed unless
\* puppeteer.launch rejected (there is no browser) or browser.close()
\* itself rejected.
C25_EveryRunEnds ==
    \A r \in Runs :
        (run[r].pc # "idle") ~>
            /\ run[r].pc = "done"
            /\ run[r].browser # "closed" => run[r].error \in {"LaunchError", "CloseError"}

\* one run ended on the failure path with its browser closed, another ended
\* by the rejection of browser.close() and its browser is still open
C25_Witness ==
    \E r, q \in Runs :
        /\ run[r].pc = "done" /\ run[r].browser = "closed"
        /\ run[r].error = "DeliveryError"
        /\ run[q].pc = "done" /\ run[q].browser = "open"
        /\ run[q].error = "CloseError"

\* the arguments of the last sendEmail call of the run
LastCall(rec) == rec.calls[Len(rec.calls)]

\* C26: the message handed to sgMail.send depends on the registrations only
\* through their emptiness: a non-empty sequence gives the listing with the
\* count and the registrations as rows in input order, and the link exactly
\* when a location was passed; an empty one gives the no-results message
\* without link, with or without a location.
C26_MessageByEmptiness ==
    \A r \in Watched :
        (run[r].pc = "send" /\ Len(run[r].calls) > 0) =>
            LET call == LastCall(run[r])
                msg  == run[r].msg
            IN  IF Len(call.registrations) > 0
                THEN /\ msg.subject = "Nuevas Inscripciones Disponibles!"
                     /\ msg.html.body = "Inscripciones Disponibles"
                     /\ msg.html.count = Len(call.registrations)
                     /\ msg.html.rows = call.registrations
                     /\ (msg.html.link # NoUrl) = (call.blobUrl # NoUrl)
                     /\ msg.html.link = call.blobUrl
                ELSE /\ msg.subject = "Sin inscripciones disponibles"
                     /\ msg.html.body = "No hay inscripciones disponibles"
                     /\ msg.html.rows = <<>>
                     /\ msg.html.link = NoUrl

\* sendEmail was called with no registrations and with a location: the
\* message built is the no-results message without link
C26_Witness ==
    \E r \in Watched :
        /\ run[r].pc = "send"
        /\ Len(run[r].calls) = 1
        /\ LastCall(run[r]) = [registrations |-> <<>>, blobUrl |-> UrlOf(BLOB_FILENAME)]
        /\ run[r].msg.subject = "Sin inscripciones disponibles"
        /\ run[r].msg.html.link = NoUrl

\* C27: (as claimed) every replacement of the snapshot installs a snapshot
\* whose timestamp is not below the timestamp of the snapshot it replaces.
C27_TimestampNeverDecreases ==
    [][(blobs[BLOB_FILENAME].kind = "json" /\ blobs'[BLOB_FILENAME].kind = "json")
          => blobs'[BLOB_FILENAME].timestamp >= blobs[BLOB_FILENAME].timestamp]_vars

\* the persist, capture, notify and close events of a run, in order
IsEvent(entry) ==
    \/ entry = <<"saveData", "call">>
    \/ entry[1] = "screenshot"
    \/ entry \in {<<"sgMail.send", "call">>, <<"sendEmail", "skip">>}
    \/ entry[1] = "close"

EventName(entry) ==
    CASE entry[1] = "saveData" -> "persist"
      [] entry[1] = "screenshot" -> "capture"
      [] entry[1] = "close" -> "close"
      [] OTHER -> "notify"

EventsOf(rec) ==
    LET kept == SelectSeq(rec.log, IsEvent)
    IN  [i \in DOMAIN kept |-> EventName(kept[i])]

\* C28: (as claimed) under the same outcomes of the operations, the run of
\* the file-based scraper and the run of the blob-based scraper show the
\* same sequence of persist, capture, notify and close events and both
\* resolve or both reject.
C28_VariantsAgree ==
    (run[1].pc = "done" /\ run[2].pc = "done") =>
        /\ EventsOf(run[1]) = EventsOf(run[2])
        /\ run[1].outcome = run[2].outcome

\* the fetchData calls in flight
InFlight(d) == {c \in FetchIds : d.fetches[c].pc \in {"fetch", "json"}}

\* C29: (as claimed) once the component is mounted: with no fetchData call
\* in flight loading and refreshing are false; loading is true as long as a
\* fetchData call is in flight; a call that fails sets the error and leaves
\* the data, a call that succeeds replaces the data and clears the error.
C29_LoadingWhileInFlight ==
    [][/\ (dash'.mounted /\ InFlight(dash') = {}) =>
              (~dash'.loading /\ ~dash'.refreshing)
       /\ InFlight(dash') # {} => dash'.loading
       /\ \A c \in InFlight(dash) :
              /\ dash'.fetches[c].result = "failed" =>
                     (dash'.error = FailedToLoad /\ dash'.data = dash.data)
              /\ dash'.fetches[c].result = "ok" =>
                     (dash'.data = dash.fetches[c].body /\ dash'.error = Null)]_vars

====
